---------------------------- MODULE Spec2Model ----------------------------
(***************************************************************************)
(* A model of costcalc.ExcelCost (src/costcalc/costcalc.py): the Route     *)
(* Dataset `fulldata`, the recorded overrides `_mod_vals`, the recursive   *)
(* costing engine `_rxn_cost` and the operations built on it.              *)
(*                                                                         *)
(* Numbers are exact rationals <<n, d>> in lowest terms with d > 0; the    *)
(* float NaN of the source is <<0, 0>>.  Text cells ('Relative', 'Cost     *)
(* calc') hold a string, their NaN being the string "NaN".  `fulldata` is  *)
(* the sequence of the DataFrame's rows in index order, a row being a      *)
(* function from column name to cell; the two index levels are the columns *)
(* Prod and Compound.  A slice `fulldata.loc[prod]` is a view, as the      *)
(* source arranges by sorting the index (costcalc.py:185-187): what        *)
(* `_rxn_cost` writes through `self.fulldata` it reads back through `data`.*)
(***************************************************************************)
EXTENDS Integers, Sequences, FiniteSets, TLC

VARIABLES final_prod, materials, rxns, fulldata, mod_vals, cost, pmi, status,
          history

vars == <<final_prod, materials, rxns, fulldata, mod_vals, cost, pmi, status,
          history>>

--------------------------------------------------------------------------
(* Bounds of the model.                                                    *)

\* The number of calls followed on one object.
MaxCalls == 2

\* Deepest nesting of _rxn_cost calls the model follows before it reports
\* the interpreter's RecursionError.
MaxDepth == 4

--------------------------------------------------------------------------
(* Floats as exact rationals.                                              *)

NaN == <<0, 0>>

\* The result of a division of a non-zero number by zero.
Inf == <<1, 0>>

NaNs == "NaN"

None == "None"

Unset == "unset"

isna(x) == x = NaN

Abs(n) == IF n < 0 THEN -n ELSE n

RECURSIVE GCD(_, _)
GCD(a, b) == IF b = 0 THEN a ELSE GCD(b, a % b)

Norm(n, d) == LET g == GCD(Abs(n), d) IN <<n \div g, d \div g>>

Num(k) == <<k, 1>>

Frac(n, d) == Norm(n, d)

Finite(x) == x[2] > 0

Mul(x, y) ==
    IF isna(x) \/ isna(y) THEN NaN
    ELSE IF ~Finite(x) \/ ~Finite(y) THEN Inf
    ELSE Norm(x[1] * y[1], x[2] * y[2])

Add(x, y) ==
    IF isna(x) \/ isna(y) THEN NaN
    ELSE IF ~Finite(x) \/ ~Finite(y) THEN Inf
    ELSE Norm(x[1] * y[2] + y[1] * x[2], x[2] * y[2])

Sub(x, y) ==
    IF isna(x) \/ isna(y) THEN NaN
    ELSE IF ~Finite(x) \/ ~Finite(y) THEN Inf
    ELSE Norm(x[1] * y[2] - y[1] * x[2], x[2] * y[2])

Div(x, y) ==
    IF isna(x) \/ isna(y) THEN NaN
    ELSE IF ~Finite(x) \/ ~Finite(y) THEN Inf
    ELSE IF y[1] = 0 THEN (IF x[1] = 0 THEN NaN ELSE Inf)
    ELSE IF y[1] < 0 THEN Norm(-(x[1] * y[2]), x[2] * (-y[1]))
    ELSE Norm(x[1] * y[2], x[2] * y[1])

\* Series.sum(): NaN cells are skipped, an all-NaN series sums to 0.
RECURSIVE SumSkipNa(_)
SumSkipNa(s) ==
    IF s = <<>> THEN Num(0)
    ELSE IF isna(Head(s)) THEN SumSkipNa(Tail(s))
    ELSE Add(Head(s), SumSkipNa(Tail(s)))

\* A table built row by row, as the sequence of its rows.
Rows(f) == <<>> \o f

\* F applied to the value of e, which is computed once.
Bind(e, F(_)) == CHOOSE r \in {F(x) : x \in {e}} : TRUE

--------------------------------------------------------------------------
(* The index order of the DataFrame.                                       *)

Names == <<"A", "B", "C", "Q", "R", "S", "X">>

Rank(n) == CHOOSE i \in 1..Len(Names) : Names[i] = n

KeyLess(r1, r2) ==
    \/ Rank(r1.Prod) < Rank(r2.Prod)
    \/ r1.Prod = r2.Prod /\ Rank(r1.Compound) < Rank(r2.Compound)

\* Row r put into the sorted table s, after the rows of its own key.
InsertRow(r, s) ==
    Bind(Cardinality({i \in DOMAIN s : ~KeyLess(r, s[i])}),
         LAMBDA n : SubSeq(s, 1, n) \o <<r>> \o SubSeq(s, n + 1, Len(s)))

\* DataFrame.sort_index(): a stable sort on (Prod, Compound).
RECURSIVE sort_index(_)
sort_index(s) ==
    IF s = <<>> THEN <<>>
    ELSE Bind(sort_index(SubSeq(s, 1, Len(s) - 1)),
              LAMBDA sorted : InsertRow(s[Len(s)], sorted))

--------------------------------------------------------------------------
(* The two input sheets.                                                   *)

\* A row of the materials sheet (the columns rxn_data_setup keeps).
Mat(cpd, mw, dens, cst) ==
    [Compound |-> cpd, MW |-> mw, Density |-> dens, Cost |-> cst]

\* A row of the reactions sheet (the columns rxn_data_setup keeps).
Rx(prod, cpd, equiv, vol, rel, recyc, calc, opex) ==
    [Prod |-> prod, Compound |-> cpd, Equiv |-> equiv, Volumes |-> vol,
     Relative |-> rel, OPEX |-> opex]
        @@ ("Sol Recyc" :> recyc) @@ ("Cost calc" :> calc)

\* A reagent line, a flagged (cost calculated) line and a solvent line.
Reagent(prod, cpd, equiv) == Rx(prod, cpd, equiv, NaN, NaNs, NaN, NaNs, NaN)

Calc(prod, cpd, equiv, opex) == Rx(prod, cpd, equiv, NaN, NaNs, NaN, "y", opex)

Solvent(prod, cpd, vol, rel, recyc) == Rx(prod, cpd, NaN, vol, rel, recyc, NaNs, NaN)

Catalog ==
    <<Mat("A", Num(6), NaN, NaN), Mat("B", Num(4), NaN, NaN),
      Mat("C", Num(2), NaN, NaN), Mat("Q", Num(1), NaN, Num(4)),
      Mat("R", Num(2), NaN, Num(5)), Mat("S", Num(1), Num(1), Num(2))>>

\* One reaction with a reagent and a solvent, both of known cost.
SingleRxn ==
    [final_prod |-> "A", materials |-> Catalog,
     rxns |-> <<Calc("A", "A", Num(1), NaN), Reagent("A", "R", Num(1)),
                Solvent("A", "S", Num(5), "R", Num(0))>>]

\* The same reaction, the solvent's recycle fraction left empty.
NoRecycRxn ==
    [final_prod |-> "A", materials |-> Catalog,
     rxns |-> <<Calc("A", "A", Num(1), NaN), Reagent("A", "R", Num(1)),
                Solvent("A", "S", Num(5), "R", NaN)>>]

\* Reaction B feeds reaction A; R is used by both.  The sheet is not sorted.
TwoLevel ==
    [final_prod |-> "A", materials |-> Catalog,
     rxns |-> <<Calc("B", "B", Num(1), NaN), Reagent("B", "R", Num(1)),
                Reagent("B", "Q", Num(2)),
                Calc("A", "A", Num(1), NaN), Calc("A", "B", Num(1), NaN),
                Reagent("A", "R", Num(2))>>]

\* The same route with an OPEX on both reactions.
TwoLevelOpex ==
    [final_prod |-> "A", materials |-> Catalog,
     rxns |-> <<Calc("A", "A", Num(1), Num(10)), Calc("A", "B", Num(1), NaN),
                Reagent("A", "R", Num(2)),
                Calc("B", "B", Num(1), Num(3)), Reagent("B", "R", Num(1)),
                Reagent("B", "Q", Num(2))>>]

\* Reaction C feeds reaction B, which feeds reaction A.
ThreeLevel ==
    [final_prod |-> "A", materials |-> Catalog,
     rxns |-> <<Calc("A", "A", Num(1), NaN), Calc("A", "B", Num(1), NaN),
                Reagent("A", "R", Num(2)),
                Calc("B", "B", Num(1), NaN), Calc("B", "C", Num(1), NaN),
                Reagent("B", "Q", Num(2)),
                Calc("C", "C", Num(1), NaN), Reagent("C", "R", Num(1)),
                Reagent("C", "Q", Num(1))>>]

\* The product's own line carries a catalog cost and no 'Cost calc' flag.
SelfCost ==
    [final_prod |-> "A",
     materials |-> <<Mat("A", Num(6), NaN, Num(3)), Mat("R", Num(2), NaN, Num(5))>>,
     rxns |-> <<Reagent("A", "A", Num(1)), Reagent("A", "R", Num(2))>>]

\* A flagged compound with no reaction of its name.
Unresolved ==
    [final_prod |-> "A", materials |-> Catalog,
     rxns |-> <<Calc("A", "A", Num(1), NaN), Calc("A", "B", Num(1), NaN),
                Reagent("A", "R", Num(2))>>]

\* Reaction B feeds reaction A, which needs also the flagged compound C, of
\* no reaction; the row of B comes first in index order.
PartlyUnresolved ==
    [final_prod |-> "A", materials |-> Catalog,
     rxns |-> <<Calc("A", "A", Num(1), NaN), Calc("A", "B", Num(1), NaN),
                Calc("A", "C", Num(1), NaN),
                Calc("B", "B", Num(1), Num(3)), Reagent("B", "R", Num(1)),
                Reagent("B", "Q", Num(2))>>]

\* The same, B having a catalog cost and its own line no 'Cost calc' flag.
PricedFeeder ==
    [final_prod |-> "A",
     materials |-> <<Mat("A", Num(6), NaN, NaN), Mat("B", Num(4), NaN, Num(3)),
                     Mat("C", Num(2), NaN, NaN), Mat("R", Num(2), NaN, Num(5))>>,
     rxns |-> <<Calc("A", "A", Num(1), NaN), Calc("A", "B", Num(1), NaN),
                Calc("A", "C", Num(1), NaN),
                Reagent("B", "B", Num(1)), Reagent("B", "R", Num(1))>>]

\* Two reactions that name each other as cost calculated.
Cyclic ==
    [final_prod |-> "A", materials |-> Catalog,
     rxns |-> <<Calc("A", "A", Num(1), NaN), Calc("A", "B", Num(1), NaN),
                Calc("B", "B", Num(1), NaN), Calc("B", "A", Num(1), NaN)>>]

\* A reagent listed twice in the final reaction.
DupReagent ==
    [final_prod |-> "A", materials |-> Catalog,
     rxns |-> <<Calc("A", "A", Num(1), NaN), Reagent("A", "R", Num(1)),
                Reagent("A", "R", Num(2))>>]

\* A reagent listed twice in a feeder reaction.
DupFeeder ==
    [final_prod |-> "A", materials |-> Catalog,
     rxns |-> <<Calc("A", "A", Num(1), NaN), Calc("A", "B", Num(1), NaN),
                Calc("B", "B", Num(1), NaN), Reagent("B", "R", Num(1)),
                Reagent("B", "R", Num(2))>>]

\* The final product's own line listed twice.
DupSelf ==
    [final_prod |-> "A", materials |-> Catalog,
     rxns |-> <<Calc("A", "A", Num(1), NaN), Calc("A", "A", Num(1), NaN),
                Reagent("A", "R", Num(1))>>]

\* A compound that is not in the materials sheet.
MissingMat ==
    [final_prod |-> "A", materials |-> Catalog,
     rxns |-> <<Calc("A", "A", Num(1), NaN), Reagent("A", "X", Num(1))>>]

\* A compound with neither a cost nor the flag.
MissingCost ==
    [final_prod |-> "A", materials |-> Catalog,
     rxns |-> <<Calc("A", "A", Num(1), NaN), Reagent("A", "C", Num(1))>>]

\* A compound listed twice in the materials sheet.
DupMat ==
    [final_prod |-> "A",
     materials |-> Catalog \o <<Mat("R", Num(2), NaN, Num(5))>>,
     rxns |-> <<Calc("A", "A", Num(1), NaN), Reagent("A", "R", Num(1))>>]

Inputs ==
    {SingleRxn, NoRecycRxn, TwoLevel, TwoLevelOpex, ThreeLevel, SelfCost,
     Unresolved, PartlyUnresolved, PricedFeeder, Cyclic, DupReagent, DupFeeder, DupSelf, MissingMat, MissingCost, DupMat}

--------------------------------------------------------------------------
(* rxn_data_setup, _column_clear, _set_val, _sanity_check.                 *)

\* One row of pd.merge(materials[mat_keeps], rxns[rxn_keeps], on='Compound').
MergeRow(m, r) ==
    [Prod |-> r.Prod, Compound |-> r.Compound, MW |-> m.MW,
     Density |-> m.Density, Cost |-> m.Cost, Equiv |-> r.Equiv,
     Volumes |-> r.Volumes, Relative |-> r.Relative, OPEX |-> r.OPEX]
        @@ ("Sol Recyc" :> r["Sol Recyc"]) @@ ("Cost calc" :> r["Cost calc"])

\* The rows the merge makes of reaction line r: one per material of its
\* name, and one with NaN for the material when there is none.
MergeLine(mats, r) ==
    Bind(SelectSeq(mats, LAMBDA m : m.Compound = r.Compound),
         LAMBDA hits :
            IF hits = <<>> THEN <<MergeRow(Mat(r.Compound, NaN, NaN, NaN), r)>>
            ELSE Rows([i \in 1..Len(hits) |-> MergeRow(hits[i], r)]))

\* how='right': every reaction line survives.
RECURSIVE merge(_, _)
merge(mats, rx) ==
    IF rx = <<>> THEN <<>>
    ELSE MergeLine(mats, Head(rx)) \o merge(mats, Tail(rx))

empty_cols ==
    {"kg/kg rxn", "RM cost/kg rxn", "% RM cost/kg rxn",
     "kg/kg prod", "RM cost/kg prod", "% RM cost/kg prod"}

\* The rows `self.fulldata.loc[cells, ...]` selects in _set_val.
Cells(fd, cpd, step) ==
    {i \in DOMAIN fd : fd[i].Compound = cpd /\ (step = None \/ fd[i].Prod = step)}

\* A faulty _set_val: a cost is set and the row stays flagged as calculated.
SetCellKeepFlag(row, val, val_type) == [row EXCEPT ![val_type] = val]

\* costcalc.py:322-326 on one row.
SetCell(row, val, val_type) ==
    IF val_type = "Cost"
    THEN [row EXCEPT ![val_type] = val, !["Cost calc"] = NaNs]
    ELSE [row EXCEPT ![val_type] = val]

\* A faulty _set_val: the step is ignored.
SetValAllSteps(fd, cpd, val, val_type, step) ==
    Rows([i \in DOMAIN fd |->
            IF fd[i].Compound = cpd THEN SetCell(fd[i], val, val_type) ELSE fd[i]])

_set_val(fd, cpd, val, val_type, step) ==
    Rows([i \in DOMAIN fd |->
            IF i \in Cells(fd, cpd, step) THEN SetCell(fd[i], val, val_type)
            ELSE fd[i]])

\* A faulty replay: the overrides are applied newest first.
RECURSIVE ReplayNewestFirst(_, _)
ReplayNewestFirst(fd, mods) ==
    IF mods = <<>> THEN fd
    ELSE Bind(_set_val(fd, mods[Len(mods)].cpd, mods[Len(mods)].val,
                       mods[Len(mods)].val_type, mods[Len(mods)].step),
              LAMBDA next : ReplayNewestFirst(next, SubSeq(mods, 1, Len(mods) - 1)))

\* The loop `for mod in self._mod_vals: self._set_val(*mod)`.
RECURSIVE Replay(_, _)
Replay(fd, mods) ==
    IF mods = <<>> THEN fd
    ELSE Bind(_set_val(fd, mods[1].cpd, mods[1].val, mods[1].val_type, mods[1].step),
              LAMBDA next : Replay(next, Tail(mods)))

\* costcalc.py:259-260: the costs to be calculated are forgotten.
CostReset(fd) ==
    Rows([i \in DOMAIN fd |->
            IF fd[i]["Cost calc"] # NaNs THEN [fd[i] EXCEPT !.Cost = NaN]
            ELSE fd[i]])

\* costcalc.py:268-272: the calculated columns are made or emptied.
ColumnsEmptied(fd) ==
    Rows([i \in DOMAIN fd |-> [c \in empty_cols |-> NaN] @@ fd[i]])

_column_clear(fd, mods) ==
    Bind(CostReset(fd), LAMBDA reset :
        Bind(Replay(reset, mods), LAMBDA modded : ColumnsEmptied(modded)))

\* The new values of fulldata and _mod_vals.
rxn_data_setup(mats, rx) ==
    Bind(merge(mats, rx), LAMBDA merged :
        Bind(sort_index(merged), LAMBDA sorted :
            [fulldata |-> _column_clear(sorted, <<>>), mod_vals |-> <<>>]))

duplicated(s) == \E i, j \in DOMAIN s : i < j /\ s[i].Compound = s[j].Compound

\* "ok", or the error __init__ ends with.  Of the lines a reaction lists
\* twice, costcalc.py:239-240 looks at the final product's own only.
_sanity_check(fd, mats, fp) ==
    IF \E i \in DOMAIN fd : isna(fd[i].MW) THEN "ValueError: missing MW"
    ELSE IF \E i \in DOMAIN fd : fd[i]["Cost calc"] = NaNs /\ isna(fd[i].Cost)
         THEN "ValueError: missing cost"
    ELSE IF duplicated(mats) THEN "ValueError: duplicate material"
    ELSE IF ~\E i \in DOMAIN fd : fd[i].Prod = fp /\ fd[i].Compound = fp
         THEN "KeyError"
    ELSE IF Cardinality({i \in DOMAIN fd : fd[i].Prod = fp /\ fd[i].Compound = fp}) > 1
         THEN "ValueError: duplicated in reaction"
    ELSE "ok"

\* Whether some reaction lists a compound twice.
HasDuplicateLine(fd) ==
    \E i, j \in DOMAIN fd :
        i < j /\ fd[i].Prod = fd[j].Prod /\ fd[i].Compound = fd[j].Compound

--------------------------------------------------------------------------
(* The costing engine: _rxn_cost, _rxn_data_post, calc_cost.               *)

Hundred == Num(100)

One == Num(1)

\* The positions of reaction prod's rows, in index order: fulldata.loc[prod].
ProdRows(fd, prod) ==
    SelectSeq(Rows([i \in 1..Len(fd) |-> i]), LAMBDA i : fd[i].Prod = prod)

\* The position of row (prod, cpd); 0 when the reaction has no such row.
RowOf(fd, prod, cpd) ==
    IF \E i \in DOMAIN fd : fd[i].Prod = prod /\ fd[i].Compound = cpd
    THEN CHOOSE i \in DOMAIN fd : fd[i].Prod = prod /\ fd[i].Compound = cpd
    ELSE 0

\* costcalc.py:437-439, the mass of a solvent: Volumes*Density*(1 - Sol
\* Recyc)*(kg of the compound the volumes are relative to).
SolventKg(r, amt_rel) ==
    Mul(Mul(Mul(r.Volumes, r.Density), Sub(One, r["Sol Recyc"])), amt_rel)

\* amount_kg of costcalc.py:428-439 for the row at position i: Equiv*MW, and
\* for a row with Volumes the mass of a solvent relative to Equiv*MW of the
\* row its 'Relative' names.
amount_kg(fd, prod, i) ==
    IF isna(fd[i].Volumes) THEN Mul(fd[i].Equiv, fd[i].MW)
    ELSE Bind(fd[RowOf(fd, prod, fd[i].Relative)],
              LAMBDA rel : SolventKg(fd[i], Mul(rel.Equiv, rel.MW)))

\* A faulty normalisation: the masses are written as they are.
KgNotNormalised(fd, prod, self) ==
    Rows([i \in DOMAIN fd |->
            IF fd[i].Prod = prod
            THEN [fd[i] EXCEPT !["kg/kg rxn"] = amount_kg(fd, prod, i)]
            ELSE fd[i]])

\* costcalc.py:443-444: 'kg/kg rxn' of the rows of prod, `self` being the
\* position of the product's own row.
KgWrite(fd, prod, self) ==
    Bind(amount_kg(fd, prod, self), LAMBDA kg_prod :
        Rows([i \in DOMAIN fd |->
                IF fd[i].Prod = prod
                THEN [fd[i] EXCEPT !["kg/kg rxn"] = Div(amount_kg(fd, prod, i), kg_prod)]
                ELSE fd[i]]))

\* The loop of costcalc.py:454-464 picks the rows flagged here.  The source
\* reads the 'Cost' column, not the 'Cost calc' flag (costcalc.py:449-450).
\* A faulty test: every row is taken for one of unknown cost.
CostAlwaysUnknown(row) == TRUE

unknown_cost(row) == isna(row.Cost)

\* A faulty return: the OPEX is left out.
RawMaterialOnly(rm, opex) == rm

\* The value returned at costcalc.py:500-503.
WithOpex(rm, opex) == IF isna(opex) THEN rm ELSE Add(rm, opex)

\* A faulty row cost: a row's OPEX is counted with its raw materials.
RmCostPlusOpex(row) ==
    IF isna(row.OPEX) THEN Mul(row["kg/kg rxn"], row.Cost)
    ELSE SumSkipNa(<<Mul(row["kg/kg rxn"], row.Cost), row.OPEX>>)

\* 'RM cost/kg rxn' of a row as costcalc.py:467-468 sets it.
RmCost(row) == Mul(row["kg/kg rxn"], row.Cost)

\* A faulty write: the percentage of the product's own row is not removed.
RxnWriteOwnPercent(fd, prod, amp, self) ==
    Bind(SumSkipNa(Rows([i \in DOMAIN fd |->
                            IF fd[i].Prod = prod THEN RmCost(fd[i]) ELSE NaN])),
         LAMBDA total :
            Rows([i \in DOMAIN fd |->
                IF fd[i].Prod # prod THEN fd[i]
                ELSE [fd[i] EXCEPT
                        !["RM cost/kg rxn"] = IF i = self THEN total ELSE RmCost(fd[i]),
                        !["% RM cost/kg rxn"] =
                            Div(Mul(IF i = self THEN total ELSE RmCost(fd[i]), Hundred),
                                total),
                        !["RM cost/kg prod"] =
                            Mul(IF i = self THEN total ELSE RmCost(fd[i]), amp),
                        !.Cost = IF i = self THEN total ELSE fd[i].Cost,
                        !["kg/kg prod"] = Mul(fd[i]["kg/kg rxn"], amp)]]))

\* costcalc.py:466-495: what _rxn_cost writes to the rows of prod after the
\* recursion.  The sum of costcalc.py:471 runs over every row of the
\* reaction, the product's own included.
RxnWrite(fd, prod, amp, self) ==
    Bind(SumSkipNa(Rows([i \in DOMAIN fd |->
                            IF fd[i].Prod = prod THEN RmCost(fd[i]) ELSE NaN])),
         LAMBDA total :
            Rows([i \in DOMAIN fd |->
                IF fd[i].Prod # prod THEN fd[i]
                ELSE IF i = self
                THEN [fd[i] EXCEPT
                        !["RM cost/kg rxn"] = total,
                        !["% RM cost/kg rxn"] = NaN,
                        !["RM cost/kg prod"] = Mul(total, amp),
                        !.Cost = total,
                        !["kg/kg prod"] = Mul(fd[i]["kg/kg rxn"], amp)]
                ELSE [fd[i] EXCEPT
                        !["RM cost/kg rxn"] = RmCost(fd[i]),
                        !["% RM cost/kg rxn"] =
                            Div(Mul(RmCost(fd[i]), Hundred), total),
                        !["RM cost/kg prod"] = Mul(RmCost(fd[i]), amp),
                        !["kg/kg prod"] = Mul(fd[i]["kg/kg rxn"], amp)]]))

\* What a call of the engine gives: the dataset after it, the value
\* returned, the exception raised ("none" when the call returns) and the
\* (prod, cpd) rows the engine recursed for.
Raised(fd, fault, calls) == [fd |-> fd, ret |-> NaN, fault |-> fault, calls |-> calls]

Returned(fd, ret, calls) == [fd |-> fd, ret |-> ret, fault |-> "none", calls |-> calls]

RECURSIVE _rxn_cost(_, _, _, _)
RECURSIVE RxnLoop(_, _, _, _, _, _)
RECURSIVE RxnLoopFlatAmp(_, _, _, _, _, _)

\* A faulty loop: the sub-reaction is given the row's own mass ratio, the
\* amplifier of the consuming reaction left out.
RxnLoopFlatAmp(fd, calls, prod, amp, todo, depth) ==
    IF todo = <<>> THEN Returned(fd, NaN, calls)
    ELSE IF fd[todo[1]].Compound = prod
    THEN RxnLoopFlatAmp(fd, calls, prod, amp, Tail(todo), depth)
    ELSE Bind(_rxn_cost(fd, fd[todo[1]].Compound,
                        fd[todo[1]]["kg/kg rxn"], depth + 1),
              LAMBDA sub :
                IF sub.fault # "none"
                THEN Raised(sub.fd, sub.fault,
                            calls \o <<<<prod, fd[todo[1]].Compound>>>> \o sub.calls)
                ELSE Bind([sub.fd EXCEPT ![todo[1]].Cost = sub.ret],
                          LAMBDA next :
                            RxnLoopFlatAmp(next,
                                    calls \o <<<<prod, fd[todo[1]].Compound>>>> \o sub.calls,
                                    prod, amp, Tail(todo), depth)))

\* The loop of costcalc.py:454-464 over the positions `todo`, from dataset
\* fd, `calls` being the rows recursed for so far.
RxnLoop(fd, calls, prod, amp, todo, depth) ==
    IF todo = <<>> THEN Returned(fd, NaN, calls)
    ELSE IF fd[todo[1]].Compound = prod
    THEN RxnLoop(fd, calls, prod, amp, Tail(todo), depth)
    ELSE Bind(_rxn_cost(fd, fd[todo[1]].Compound,
                        Mul(amp, fd[todo[1]]["kg/kg rxn"]), depth + 1),
              LAMBDA sub :
                IF sub.fault # "none"
                THEN Raised(sub.fd, sub.fault,
                            calls \o <<<<prod, fd[todo[1]].Compound>>>> \o sub.calls)
                ELSE Bind([sub.fd EXCEPT ![todo[1]].Cost = sub.ret],
                          LAMBDA next :
                            RxnLoop(next,
                                    calls \o <<<<prod, fd[todo[1]].Compound>>>> \o sub.calls,
                                    prod, amp, Tail(todo), depth)))

\* costcalc.py:425 raises KeyError when no row is of reaction prod, and so
\* do the look-ups of a solvent's 'Relative' (costcalc.py:434) and of the
\* product's own row (costcalc.py:444) when the reaction has no such row.
Missing(fd, prod) ==
    \/ ProdRows(fd, prod) = <<>>
    \/ RowOf(fd, prod, prod) = 0
    \/ \E i \in DOMAIN fd :
          /\ fd[i].Prod = prod
          /\ ~isna(fd[i].Volumes)
          /\ RowOf(fd, prod, fd[i].Relative) = 0

_rxn_cost(fd, prod, amp, depth) ==
    IF depth > MaxDepth THEN Raised(fd, "RecursionError", <<>>)
    ELSE IF Missing(fd, prod) THEN Raised(fd, "KeyError", <<>>)
    ELSE Bind(KgWrite(fd, prod, RowOf(fd, prod, prod)), LAMBDA fd1 :
         Bind(RxnLoop(fd1, <<>>, prod, amp,
                      SelectSeq(ProdRows(fd1, prod), LAMBDA i : unknown_cost(fd1[i])),
                      depth),
              LAMBDA lp :
                IF lp.fault # "none" THEN lp
                ELSE Bind(RxnWrite(lp.fd, prod, amp, RowOf(fd, prod, prod)),
                          LAMBDA fd2 :
                            Bind(fd2[RowOf(fd, prod, prod)], LAMBDA own :
                                Returned(fd2, WithOpex(own["RM cost/kg rxn"], own.OPEX),
                                         lp.calls)))))

Prods(fd) == {fd[i].Prod : i \in DOMAIN fd}

Column(fd, col) == Rows([i \in DOMAIN fd |-> fd[i][col]])

\* The products, in index order.
ProdNames(fd) == SelectSeq(Names, LAMBDA n : n \in Prods(fd))

\* A line of the PMI table; the names of costcalc.py:548 and 555 without
\* their sorting prefix.
PmiLine(prod, cpd, rxn, full) ==
    [Prod |-> prod, Compound |-> cpd] @@ ("kg/kg rxn" :> rxn) @@ ("kg/kg prod" :> full)

\* costcalc.py:546-548: the sum of 'kg/kg rxn' of each reaction.
RxnPmi(fd) ==
    Bind(ProdNames(fd), LAMBDA ps :
        Rows([k \in 1..Len(ps) |->
                PmiLine(ps[k], "PMI",
                        SumSkipNa(Column(SelectSeq(fd, LAMBDA r : r.Prod = ps[k]),
                                         "kg/kg rxn")),
                        NaN)]))

\* costcalc.py:553-557: the sum of 'kg/kg prod' over the whole dataset.
FullPmi(fd) ==
    PmiLine(final_prod, "Full Route PMI", NaN, SumSkipNa(Column(fd, "kg/kg prod")))

\* The PMI table of costcalc.py:560-561: the lines of the reactions and the
\* line of the route.
PmiTable(fd) == Append(RxnPmi(fd), FullPmi(fd))

\* costcalc.py:517-519: with an OPEX on the final reaction, the product's
\* 'Cost' becomes self.cost.
OpexCost(row, c) == IF ~isna(row.OPEX) THEN [row EXCEPT !.Cost = c] ELSE row

\* A faulty filter: a flagged row keeps its 'kg/kg prod'.
PostRowKeepsMass(row, c) ==
    IF row["Cost calc"] # NaNs
    THEN [row EXCEPT !["% RM cost/kg prod"] = NaN,
                     !["RM cost/kg prod"] = NaN]
    ELSE [row EXCEPT !["% RM cost/kg prod"] =
                        Div(Mul(row["RM cost/kg prod"], Hundred), c)]

\* A faulty filter: a flagged row keeps its 'RM cost/kg prod' and percentage.
PostRowKeepsCost(row, c) ==
    IF row["Cost calc"] # NaNs
    THEN [row EXCEPT !["% RM cost/kg prod"] =
                        Div(Mul(row["RM cost/kg prod"], Hundred), c),
                     !["kg/kg prod"] = NaN]
    ELSE [row EXCEPT !["% RM cost/kg prod"] =
                        Div(Mul(row["RM cost/kg prod"], Hundred), c)]

\* costcalc.py:522-536 on one row.
PostRow(row, c) ==
    IF row["Cost calc"] # NaNs
    THEN [row EXCEPT !["% RM cost/kg prod"] = NaN,
                     !["RM cost/kg prod"] = NaN,
                     !["kg/kg prod"] = NaN]
    ELSE [row EXCEPT !["% RM cost/kg prod"] =
                        Div(Mul(row["RM cost/kg prod"], Hundred), c)]

\* The dataset after _rxn_data_post, c being self.cost.
PostData(fd, c) ==
    Rows([i \in DOMAIN fd |->
            IF fd[i].Prod = final_prod /\ fd[i].Compound = final_prod
            THEN [PostRow(OpexCost(fd[i], c), c) EXCEPT !["kg/kg prod"] = One]
            ELSE PostRow(fd[i], c)])

\* An object: the attributes the operations change.
Obj(fd, mods, c, p) == [fulldata |-> fd, mod_vals |-> mods, cost |-> c, pmi |-> p]

\* What a call on an object gives: the object after it, the value returned,
\* the exception that ended it and the rows the engine recursed for.
Outcome(o, ret, fault, calls) ==
    [obj |-> o, ret |-> ret, fault |-> fault, calls |-> calls]

\* calc_cost on object o.  An exception leaves `cost` and `pmi` as they were
\* and `fulldata` as the engine left it.
calc_cost(o) ==
    Bind(_column_clear(o.fulldata, o.mod_vals), LAMBDA cleared :
    Bind(_rxn_cost(cleared, final_prod, One, 1), LAMBDA r :
        IF r.fault # "none"
        THEN Outcome(Obj(r.fd, o.mod_vals, o.cost, o.pmi), <<>>, r.fault, r.calls)
        ELSE Bind(PostData(r.fd, r.ret), LAMBDA post :
                Outcome(Obj(post, o.mod_vals, r.ret, PmiTable(post)),
                        <<>>, "none", r.calls))))

--------------------------------------------------------------------------
(* value_mod, value_scan, sensitivity.                                     *)

Mod(cpd, val, val_type, step) ==
    [cpd |-> cpd, val |-> val, val_type |-> val_type, step |-> step]

value_mod(o, cpd, val, val_type, step) ==
    Bind(Append(o.mod_vals, Mod(cpd, val, val_type, step)), LAMBDA mods :
        Obj(_column_clear(o.fulldata, mods), mods, o.cost, o.pmi))

\* A faulty end of iteration: the dataset is not put back.
ScanKeepData(c, fd_copy) ==
    Obj(c.fulldata, SubSeq(c.mod_vals, 1, Len(c.mod_vals) - 1), c.cost, c.pmi)

\* costcalc.py:366-369: what ends an iteration of value_scan's loop, c being
\* the object after calc_cost and fd_copy the snapshot taken before the loop.
ScanReset(c, fd_copy) ==
    Obj(fd_copy, SubSeq(c.mod_vals, 1, Len(c.mod_vals) - 1), c.cost, c.pmi)

\* The loop of costcalc.py:362-369.  An exception of calc_cost leaves the
\* loop where it is: nothing is restored and the override stays recorded.
RECURSIVE ScanLoop(_, _, _, _, _, _, _)
ScanLoop(o, fd_copy, cpd, vals, val_type, step, all_costs) ==
    IF vals = <<>> THEN Outcome(o, all_costs, "none", <<>>)
    ELSE Bind(value_mod(o, cpd, vals[1], val_type, step), LAMBDA m :
         Bind(calc_cost(m), LAMBDA c :
            IF c.fault # "none" THEN Outcome(c.obj, <<>>, c.fault, <<>>)
            ELSE Bind(ScanReset(c.obj, fd_copy), LAMBDA next :
                    ScanLoop(next, fd_copy, cpd, Tail(vals), val_type, step,
                             Append(all_costs, c.obj.cost)))))

\* costcalc.py:372-373: the cost is read back from the dataset.
CostReadBack(fd) == fd[RowOf(fd, final_prod, final_prod)]["RM cost/kg rxn"]

\* value_scan with a list of values; what is returned is the list of costs.
value_scan(o, cpd, vals, val_type, step) ==
    Bind(ScanLoop(o, o.fulldata, cpd, vals, val_type, step, <<>>), LAMBDA lp :
        IF lp.fault # "none" THEN lp
        ELSE Outcome([lp.obj EXCEPT !.cost = CostReadBack(lp.obj.fulldata)],
                     lp.ret, "none", <<>>))

\* One perturbed costing of sensitivity (costcalc.py:670-672, 677-679).
Perturbed(o, cpd, val, col, step) ==
    Bind(rxn_data_setup(materials, rxns), LAMBDA fresh :
    Bind(value_mod(Obj(fresh.fulldata, fresh.mod_vals, o.cost, o.pmi),
                   cpd, val, col, step),
         LAMBDA m : calc_cost(m)))

\* The change of cost in percent, costcalc.py:674 and 681.
PerCent(c, cost_save) == Sub(Hundred, Div(Mul(c, Hundred), cost_save))

\* The line costcalc.py:684-687 fills in.
SensLine(r, lo, hi, cost_save) ==
    [step |-> r.Prod, cpd |-> r.Compound,
     cost_low |-> lo, cost_high |-> hi,
     per_low |-> PerCent(lo, cost_save), per_high |-> PerCent(hi, cost_save)]

\* The loop of costcalc.py:667-687 over the rows `todo` of `sens`.
RECURSIVE SensLoop(_, _, _, _, _, _)
SensLoop(o, col, frac, cost_save, todo, sens) ==
    IF todo = <<>> THEN Outcome(o, sens, "none", <<>>)
    ELSE Bind(Perturbed(o, todo[1].Compound, Mul(todo[1][col], Sub(One, frac)),
                        col, todo[1].Prod),
              LAMBDA lo :
         IF lo.fault # "none" THEN Outcome(lo.obj, <<>>, lo.fault, <<>>)
         ELSE Bind(Perturbed(lo.obj, todo[1].Compound,
                             Mul(todo[1][col], Add(One, frac)), col, todo[1].Prod),
                   LAMBDA hi :
              IF hi.fault # "none" THEN Outcome(hi.obj, <<>>, hi.fault, <<>>)
              ELSE SensLoop(hi.obj, col, frac, cost_save, Tail(todo),
                            Append(sens, SensLine(todo[1], lo.obj.cost,
                                                  hi.obj.cost, cost_save)))))

\* costcalc.py:689-691: the values saved after the first costing are put
\* back; o is the object after the loop and base the one saved.
SensRestore(o, base) == [o EXCEPT !.cost = base.cost, !.fulldata = base.fulldata]

\* sensitivity with decimals=None; what is returned is the table `sens`,
\* one line per row whose `col` is not NaN when the method is called.
sensitivity(o, col, frac) ==
    Bind(calc_cost(o), LAMBDA base :
        IF base.fault # "none" THEN Outcome(base.obj, <<>>, base.fault, <<>>)
        ELSE Bind(SensLoop(base.obj, col, frac, base.obj.cost,
                           SelectSeq(o.fulldata, LAMBDA r : ~isna(r[col])), <<>>),
                  LAMBDA lp :
                    IF lp.fault # "none" THEN lp
                    ELSE Outcome(SensRestore(lp.obj, base.obj), lp.ret, "none", <<>>)))

--------------------------------------------------------------------------
(* The state machine.                                                      *)

\* The object the variables describe.
Self == Obj(fulldata, mod_vals, cost, pmi)

\* The values the calls are given.
Vals == {Num(2), Num(3)}

\* The overrides value_mod is given: a cost is set to either value, a number
\* of equivalents to the first.
ModArgs == {<<"Cost", v>> : v \in Vals} \cup {<<"Equiv", Num(2)>>}

\* The compounds value_mod and value_scan name.
ModCpds == {"B", "R"}

\* The (cpd, step) pairs value_mod names: row (step, cpd) exists, or step is
\* None and some reaction lists cpd.
Targets(fd) ==
    {<<fd[i].Compound, fd[i].Prod>> : i \in {j \in DOMAIN fd : fd[j].Compound \in ModCpds}}
        \cup {<<fd[i].Compound, None>> : i \in {j \in DOMAIN fd : fd[j].Compound \in ModCpds}}

\* The lists value_scan is given: no value, one value, two values either way.
ScanLists ==
    {<<>>} \cup {<<v>> : v \in Vals}
           \cup {p \in Vals \X Vals : p[1] # p[2]}

ScanTargets(fd) == {t \in Targets(fd) : t[2] = None}

Fracs == {Frac(1, 10)}

SensCols == {"Equiv"}

\* A call: what it was given, what it gave back, the exception that ended
\* it and the rows the engine recursed for.
Op(name, args, ret, fault, calls) ==
    [op |-> name, args |-> args, ret |-> ret, fault |-> fault, calls |-> calls]

\* ExcelCost(materials_file, rxn_file, final_prod): __init__ builds the
\* dataset and checks it; `status` is "ok" or the error that ended __init__,
\* in which case there is no object.
Init ==
    \E inp \in Inputs :
        \E s \in {rxn_data_setup(inp.materials, inp.rxns)} :
            /\ final_prod = inp.final_prod
            /\ materials = inp.materials
            /\ rxns = inp.rxns
            /\ status = _sanity_check(s.fulldata, inp.materials, inp.final_prod)
            /\ fulldata = s.fulldata
            /\ mod_vals = s.mod_vals
            /\ cost = Unset
            /\ pmi = Unset
            /\ history = <<>>

\* The calls are followed on datasets in which no reaction lists a compound
\* twice, MaxCalls of them on one object.
Usable ==
    /\ status = "ok"
    /\ ~HasDuplicateLine(fulldata)
    /\ Len(history) < MaxCalls

Step(o, call) ==
    /\ fulldata' = o.fulldata
    /\ mod_vals' = o.mod_vals
    /\ cost' = o.cost
    /\ pmi' = o.pmi
    /\ history' = Append(history, call)
    /\ UNCHANGED <<final_prod, materials, rxns, status>>

ValueMod ==
    /\ Usable
    /\ \E t \in Targets(fulldata), a \in ModArgs :
          Step(value_mod(Self, t[1], a[2], a[1], t[2]),
               Op("value_mod", Mod(t[1], a[2], a[1], t[2]), <<>>, "none", <<>>))

CalcCost ==
    /\ Usable
    /\ \E c \in {calc_cost(Self)} :
          Step(c.obj, Op("calc_cost", <<>>, c.obj.cost, c.fault, c.calls))

ValueScan ==
    /\ Usable
    /\ \E t \in ScanTargets(fulldata), vals \in ScanLists :
          \E r \in {value_scan(Self, t[1], vals, "Cost", t[2])} :
              Step(r.obj, Op("value_scan", Mod(t[1], vals, "Cost", t[2]),
                             r.ret, r.fault, <<>>))

Sensitivity ==
    /\ Usable
    /\ \E col \in SensCols, frac \in Fracs :
          \E r \in {sensitivity(Self, col, frac)} :
              Step(r.obj, Op("sensitivity", [col |-> col, frac |-> frac],
                             r.ret, r.fault, <<>>))

RxnDataSetup ==
    /\ Usable
    /\ \E s \in {rxn_data_setup(materials, rxns)} :
          Step(Obj(s.fulldata, s.mod_vals, cost, pmi),
               Op("rxn_data_setup", <<>>, <<>>, "none", <<>>))

Next == ValueMod \/ CalcCost \/ ValueScan \/ Sensitivity \/ RxnDataSetup

Spec == Init /\ [][Next]_vars

--------------------------------------------------------------------------
(* The properties.                                                         *)

Last(h) == h[Len(h)]

\* The step is a call of `name`, recorded last in history'.
IsCall(name) ==
    /\ Len(history') = Len(history) + 1
    /\ Last(history').op = name

\* The step is a call of `name` that returns.
Returns(name) == IsCall(name) /\ Last(history').fault = "none"

\* The last call was `name` and it returned.
LastReturned(name) ==
    /\ history # <<>>
    /\ Last(history).op = name
    /\ Last(history).fault = "none"

\* Override m is for the row.
IsFor(m, row) ==
    row.Compound = m.cpd /\ (m.step = None \/ row.Prod = m.step)

\* The position of the final product's own row.
FinalRow == RowOf(fulldata, final_prod, final_prod)

\* C1 (as the specification states it): two calls of calc_cost in a row,
\* with nothing in between, return the same final cost.
C1_CalcCostRepeatable ==
    \A i \in 1..(Len(history) - 1) :
        (/\ history[i].op = "calc_cost" /\ history[i].fault = "none"
         /\ history[i + 1].op = "calc_cost" /\ history[i + 1].fault = "none")
            => history[i + 1].ret = history[i].ret

\* C2 (as the specification states it): a value_scan that returns on a
\* dataset whose cost has just been calculated leaves fulldata, cost and the
\* recorded overrides as they were.
C2_ScanLeavesState ==
    [][(LastReturned("calc_cost") /\ Returns("value_scan"))
          => (fulldata' = fulldata /\ cost' = cost /\ mod_vals' = mod_vals)]_vars

\* The costs value_scan returns for the list vals, in the state before the step.
ScanOf(m, vals) == value_scan(Self, m.cpd, vals, m.val_type, m.step)

\* C3: a scan of [v1, v2] reports for each value the cost a scan of
\* [v2, v1] reports for it, and the cost a scan of that value alone reports.
C3_ScanOrderIndependent ==
    [][(Returns("value_scan") /\ Len(Last(history').args.val) = 2)
          => LET m == Last(history').args
                 got == Last(history').ret
                 rev == ScanOf(m, <<m.val[2], m.val[1]>>)
                 one == ScanOf(m, <<m.val[1]>>)
                 two == ScanOf(m, <<m.val[2]>>)
             IN /\ rev.fault = "none" /\ rev.ret = <<got[2], got[1]>>
                /\ one.fault = "none" /\ one.ret = <<got[1]>>
                /\ two.fault = "none" /\ two.ret = <<got[2]>>]_vars

\* A scan of two values has returned two different costs.
C3_Witness ==
    /\ LastReturned("value_scan")
    /\ Len(Last(history).ret) = 2
    /\ Last(history).ret[1] # Last(history).ret[2]
    /\ ~isna(Last(history).ret[1])
    /\ ~isna(Last(history).ret[2])

\* C4 (as the specification states it): when sensitivity returns, cost and
\* fulldata are those of its first costing, the recorded overrides are those
\* it was called with, and calc_cost gives the cost it gave before the call.
C4_SensitivityRestores ==
    [][Returns("sensitivity")
          => LET before == calc_cost(Self)
                 after == calc_cost(Obj(fulldata', mod_vals', cost', pmi'))
             IN /\ cost' = before.obj.cost
                /\ fulldata' = before.obj.fulldata
                /\ mod_vals' = mod_vals
                /\ after.obj.cost = before.obj.cost]_vars

\* The value the last override of mods for the cell (row, col) records.
LastFor(mods, row, col) ==
    LET hits == SelectSeq(mods, LAMBDA m : m.val_type = col /\ IsFor(m, row))
    IN Last(hits).val

Overridden(mods, row, col) ==
    \E k \in DOMAIN mods : mods[k].val_type = col /\ IsFor(mods[k], row)

\* In dataset fd every cell an override of mods is for holds the value of
\* the last such override.
LastWins(fd, mods) ==
    \A i \in DOMAIN fd, col \in {"Cost", "Equiv"} :
        Overridden(mods, fd[i], col) => fd[i][col] = LastFor(mods, fd[i], col)

\* C5: every _column_clear (the one calc_cost starts with, the one value_mod
\* ends with) leaves each overridden cell with the value of the last override
\* recorded for it; value_mod records its override after those there are and
\* calc_cost leaves the list as it is.
C5_OverridesPersist ==
    /\ [](status = "ok" => LastWins(_column_clear(fulldata, mod_vals), mod_vals))
    /\ [][IsCall("value_mod")
            => /\ mod_vals' = Append(mod_vals, Last(history').args)
               /\ LastWins(fulldata', mod_vals')]_vars
    /\ [][IsCall("calc_cost") => mod_vals' = mod_vals]_vars

\* Two overrides with different values are recorded for one cell, which
\* holds the second.
C5_Witness ==
    /\ Len(mod_vals) = 2
    /\ mod_vals[1].val # mod_vals[2].val
    /\ mod_vals[1].val_type = mod_vals[2].val_type
    /\ \E i \in DOMAIN fulldata :
          /\ IsFor(mod_vals[1], fulldata[i])
          /\ IsFor(mod_vals[2], fulldata[i])
          /\ fulldata[i][mod_vals[2].val_type] = mod_vals[2].val

\* C6: value_mod(cpd, val, val_type, step) sets the field on the rows of cpd,
\* all of them when step is None and the one of reaction `step` otherwise;
\* every other row is what clearing without the new override makes it.
C6_OverrideScope ==
    [][IsCall("value_mod")
          => LET m == Last(history').args
                 base == _column_clear(fulldata, mod_vals)
             IN \A i \in DOMAIN fulldata :
                   IF /\ fulldata[i].Compound = m.cpd
                      /\ (m.step = None \/ fulldata[i].Prod = m.step)
                   THEN fulldata'[i][m.val_type] = m.val
                   ELSE fulldata'[i] = base[i]]_vars

\* An override for one step has been made on a compound another reaction
\* lists too, with another value of the field.
C6_Witness ==
    /\ history # <<>>
    /\ Last(history).op = "value_mod"
    /\ Last(history).args.step # None
    /\ \E i, j \in DOMAIN fulldata :
          /\ fulldata[i].Compound = Last(history).args.cpd
          /\ fulldata[j].Compound = Last(history).args.cpd
          /\ fulldata[i].Prod = Last(history).args.step
          /\ fulldata[j].Prod # Last(history).args.step
          /\ fulldata[i][Last(history).args.val_type] = Last(history).args.val
          /\ fulldata[j][Last(history).args.val_type] # Last(history).args.val

\* value_mod(cpd, v, 'Cost', step) has been followed by a calc_cost that
\* returned.
CostOverrideCosted ==
    /\ Len(history) >= 2
    /\ history[Len(history) - 1].op = "value_mod"
    /\ history[Len(history) - 1].args.val_type = "Cost"
    /\ LastReturned("calc_cost")

\* The row keeps the overridden cost: flag cleared, 'Cost' as given, and no
\* recursion of the engine for the row.
KeepsOverride(row, m, calls) ==
    /\ row["Cost calc"] = NaNs
    /\ row.Cost = m.val
    /\ \A k \in DOMAIN calls : calls[k] # <<row.Prod, row.Compound>>

\* C7 (as the specification states it): after value_mod(cpd, v, 'Cost',
\* step) and calc_cost every row the override is for keeps the cost v.
C7_EveryTargetedRow ==
    CostOverrideCosted
        => \A i \in DOMAIN fulldata :
              IsFor(history[Len(history) - 1].args, fulldata[i])
                 => KeepsOverride(fulldata[i], history[Len(history) - 1].args,
                                  Last(history).calls)

\* C7 (amended): after value_mod(cpd, v, 'Cost', step) and calc_cost every
\* row the override is for, a reaction's own product row apart, has its flag
\* cleared and the cost v, and the engine has not recursed for it; a
\* product's own row has its flag cleared.
C7_ManualCostKept ==
    CostOverrideCosted
        => \A i \in DOMAIN fulldata :
              IsFor(history[Len(history) - 1].args, fulldata[i])
                 => IF fulldata[i].Prod # fulldata[i].Compound
                    THEN KeepsOverride(fulldata[i], history[Len(history) - 1].args,
                                       Last(history).calls)
                    ELSE fulldata[i]["Cost calc"] = NaNs

\* The cost of a compound the reactions sheet flags as calculated has been
\* overridden in the reaction that uses it, and the route has been costed.
C7_Witness ==
    /\ CostOverrideCosted
    /\ \E i \in DOMAIN fulldata, k \in DOMAIN rxns :
          /\ IsFor(history[Len(history) - 1].args, fulldata[i])
          /\ fulldata[i].Prod # fulldata[i].Compound
          /\ rxns[k].Prod = fulldata[i].Prod
          /\ rxns[k].Compound = fulldata[i].Compound
          /\ rxns[k]["Cost calc"] = "y"
          /\ fulldata[i].Cost = history[Len(history) - 1].args.val

\* Some reaction of the reactions sheet lists a compound twice.
ListsTwice ==
    \E i, j \in DOMAIN rxns :
        i < j /\ rxns[i].Prod = rxns[j].Prod /\ rxns[i].Compound = rxns[j].Compound

NoRecycleRatio(fd, i) ==
    LET rel == fd[RowOf(fd, fd[i].Prod, fd[i].Relative)]
        own == fd[RowOf(fd, fd[i].Prod, fd[i].Prod)]
    IN Div(Mul(Mul(fd[i].Volumes, fd[i].Density), Mul(rel.Equiv, rel.MW)),
           Mul(own.Equiv, own.MW))

\* C9 (as the specification states it): after calc_cost a solvent with no
\* recycle fraction has the mass ratio and the cost of one that recycles
\* nothing.
C9_AbsentRecycleIsZero ==
    LastReturned("calc_cost")
        => \A i \in DOMAIN fulldata :
              (~isna(fulldata[i].Volumes) /\ isna(fulldata[i]["Sol Recyc"]))
                 => /\ fulldata[i]["kg/kg rxn"] = NoRecycleRatio(fulldata, i)
                    /\ fulldata[i]["RM cost/kg rxn"] =
                          Mul(NoRecycleRatio(fulldata, i), fulldata[i].Cost)

\* The 'RM cost/kg rxn' of the final reaction's rows, its own row apart.
FinalRawMaterials ==
    SumSkipNa(Rows([i \in DOMAIN fulldata |->
                      IF fulldata[i].Prod = final_prod /\ i # FinalRow
                      THEN fulldata[i]["RM cost/kg rxn"] ELSE NaN]))

\* C10: after calc_cost on a route whose final reaction has an OPEX, the cost
\* is the 'RM cost/kg rxn' of the final product's own row plus the OPEX, the
\* row's 'Cost' is that sum, and its 'RM cost/kg rxn' is the raw-material
\* cost, without the OPEX.
C10_FinalOpex ==
    (LastReturned("calc_cost") /\ ~isna(fulldata[FinalRow].OPEX))
        => /\ cost = Add(fulldata[FinalRow]["RM cost/kg rxn"], fulldata[FinalRow].OPEX)
           /\ Last(history).ret = cost
           /\ fulldata[FinalRow].Cost = cost
           /\ fulldata[FinalRow]["RM cost/kg rxn"] = FinalRawMaterials

\* A route whose final reaction has an OPEX has been costed.
C10_Witness ==
    /\ LastReturned("calc_cost")
    /\ ~isna(fulldata[FinalRow].OPEX)
    /\ ~isna(cost)
    /\ cost # fulldata[FinalRow]["RM cost/kg rxn"]

\* The sum of the numbers of s, none left out.
RECURSIVE SumAll(_)
SumAll(s) == IF s = <<>> THEN Num(0) ELSE Add(Head(s), SumAll(Tail(s)))

\* The mass of row i of dataset fd: equivalents x MW, and for a solvent
\* volume x density x (1 - recycle) x the mass of the compound it is
\* relative to.
InputMass(fd, i) ==
    IF isna(fd[i].Volumes) THEN Mul(fd[i].Equiv, fd[i].MW)
    ELSE LET rel == fd[RowOf(fd, fd[i].Prod, fd[i].Relative)]
         IN Mul(Mul(Mul(fd[i].Volumes, fd[i].Density),
                    Sub(Num(1), fd[i]["Sol Recyc"])),
                Mul(rel.Equiv, rel.MW))

\* The mass of row i over the mass of its reaction's product.
MassRatio(fd, i) ==
    Div(InputMass(fd, i), InputMass(fd, RowOf(fd, fd[i].Prod, fd[i].Prod)))

\* The sum of mass ratio x cost over the rows of the final reaction, its own
\* row apart.
WeightedSum ==
    SumAll(Rows([i \in DOMAIN fulldata |->
                    IF i # FinalRow
                    THEN Mul(MassRatio(fulldata, i), fulldata[i].Cost)
                    ELSE Num(0)]))

\* A route of one reaction, every input of known cost, every solvent with a
\* recycle fraction, no OPEX, has been costed.
SingleReactionCosted ==
    /\ LastReturned("calc_cost")
    /\ \A i \in DOMAIN fulldata :
          /\ fulldata[i].Prod = final_prod
          /\ i # FinalRow => ~isna(fulldata[i].Cost)
          /\ ~isna(fulldata[i].Volumes) => ~isna(fulldata[i]["Sol Recyc"])
    /\ isna(fulldata[FinalRow].OPEX)

OwnRow(p) == RowOf(fulldata, p, p)

\* The reactions the engine has costed: their own row holds a unit cost.
CostedReactions ==
    {p \in Prods(fulldata) :
        OwnRow(p) # 0 /\ ~isna(fulldata[OwnRow(p)]["RM cost/kg rxn"])}

\* The sum of column col over the rows of reaction p, its own row apart,
\* unknown entries left out.
InputsSum(p, col) ==
    SumSkipNa(Rows([i \in DOMAIN fulldata |->
                      IF fulldata[i].Prod = p /\ i # OwnRow(p)
                      THEN fulldata[i][col] ELSE NaN]))

\* The percentages of the inputs of reaction p sum to 100, their
\* contributions to the own row's, and the own row has no percentage.
PercentagesSum(p) ==
    /\ InputsSum(p, "% RM cost/kg rxn") = Num(100)
    /\ InputsSum(p, "RM cost/kg rxn") = fulldata[OwnRow(p)]["RM cost/kg rxn"]
    /\ isna(fulldata[OwnRow(p)]["% RM cost/kg rxn"])

FullRoutePmi == Last(pmi)["kg/kg prod"]

\* Row i is flagged cost-calculated.
Flagged(i) == fulldata[i]["Cost calc"] # NaNs

\* The 'kg/kg prod' of the rows that are not flagged, 1 for the final
\* product's own row, unknown entries left out.
UnflaggedMass ==
    SumSkipNa(Rows([i \in DOMAIN fulldata |->
                      IF i = FinalRow THEN Num(1)
                      ELSE IF Flagged(i) THEN NaN
                      ELSE fulldata[i]["kg/kg prod"]]))

\* C13: after calc_cost the whole-route PMI is the sum of 'kg/kg prod' over
\* the rows not flagged cost-calculated and the final product's own row,
\* whose 'kg/kg prod' is 1; every other flagged row has no 'kg/kg prod', no
\* 'RM cost/kg prod' and no '% RM cost/kg prod'.
C13_PmiSum ==
    LastReturned("calc_cost")
        => /\ Last(pmi).Compound = "Full Route PMI"
           /\ FullRoutePmi = UnflaggedMass
           /\ fulldata[FinalRow]["kg/kg prod"] = Num(1)
           /\ \A i \in DOMAIN fulldata :
                 (Flagged(i) /\ i # FinalRow)
                    => /\ isna(fulldata[i]["kg/kg prod"])
                       /\ isna(fulldata[i]["RM cost/kg prod"])
                       /\ isna(fulldata[i]["% RM cost/kg prod"])

\* A route has been costed in which a flagged intermediate has a mass ratio
\* in its reaction and none per final product, and the PMI is known.
C13_Witness ==
    /\ LastReturned("calc_cost")
    /\ \E i \in DOMAIN fulldata :
          /\ Flagged(i) /\ i # FinalRow
          /\ ~isna(fulldata[i]["kg/kg rxn"])
          /\ isna(fulldata[i]["kg/kg prod"])
    /\ ~isna(FullRoutePmi)
    /\ FullRoutePmi # Num(1)

\* The sum of column col over the whole dataset, unknown entries left out.
ColumnSum(col) == SumSkipNa(Column(fulldata, col))

\* The contributions per final product sum to the cost, the percentages to
\* 100.
ContributionsSum ==
    /\ ColumnSum("RM cost/kg prod") = cost
    /\ ColumnSum("% RM cost/kg prod") = Num(100)

RawMaterialsOnly ==
    \A p \in CostedReactions :
        isna(fulldata[OwnRow(p)].OPEX) /\ Flagged(OwnRow(p))

EngineRun == _rxn_cost(_column_clear(fulldata, mod_vals), final_prod, One, 1)

\* The engine recursed for the row of reaction q that consumes p.
Recursed(calls, q, p) == \E k \in DOMAIN calls : calls[k] = <<q, p>>

RECURSIVE PathFactor(_, _, _)

\* The product of the per-reaction mass ratios of the intermediates on the
\* path from the final product down to reaction p.
PathFactor(fd, calls, p) ==
    IF p = final_prod THEN One
    ELSE LET j == CHOOSE j \in DOMAIN fd :
                      /\ fd[j].Compound = p
                      /\ fd[j].Prod # p
                      /\ Recursed(calls, fd[j].Prod, p)
         IN Mul(PathFactor(fd, calls, fd[j].Prod), fd[j]["kg/kg rxn"])

\* The rows of the reactions the engine costed in a run with these calls.
CostedRows(fd, calls) ==
    {i \in DOMAIN fd :
        \/ fd[i].Prod = final_prod
        \/ \E k \in DOMAIN calls : calls[k][2] = fd[i].Prod}

\* C15: when calc_cost returns, the 'kg/kg prod' the engine stored in each row
\* of each reaction it costed is the row's 'kg/kg rxn' times the product of
\* the 'kg/kg rxn' of the consuming rows on the path from the final product
\* (1 for the final reaction, so a feeder's own row holds the ratio of the row
\* that consumes it), and the rows that are not flagged keep that value in
\* the dataset calc_cost leaves.
C15_AmplifierCompounds ==
    [][Returns("calc_cost") =>
         LET eng == EngineRun.fd
             calls == Last(history').calls
         IN \A i \in CostedRows(eng, calls) :
               /\ eng[i]["kg/kg prod"] =
                     Mul(eng[i]["kg/kg rxn"], PathFactor(eng, calls, eng[i].Prod))
               /\ (eng[i]["Cost calc"] = NaNs /\ eng[i].Compound # final_prod)
                     => fulldata'[i]["kg/kg prod"] = eng[i]["kg/kg prod"]]_vars

\* A calc_cost has returned on a route three reactions deep: a row of the
\* deepest reaction holds its ratio times those of the two rows above it.
C15_Witness ==
    /\ LastReturned("calc_cost")
    /\ \E k \in DOMAIN Last(history).calls : Last(history).calls[k][1] # final_prod
    /\ \E i, j, l \in DOMAIN fulldata :
          /\ fulldata[l].Prod = final_prod
          /\ fulldata[l].Compound = fulldata[j].Prod
          /\ fulldata[j].Prod # final_prod
          /\ fulldata[j].Compound = fulldata[i].Prod
          /\ fulldata[i].Prod # fulldata[j].Prod
          /\ ~Flagged(i)
          /\ Finite(fulldata[i]["kg/kg prod"])
          /\ fulldata[l]["kg/kg rxn"] # One
          /\ fulldata[i]["kg/kg prod"] =
                Mul(fulldata[i]["kg/kg rxn"],
                    Mul(fulldata[j]["kg/kg rxn"], fulldata[l]["kg/kg rxn"]))

\* The raw-material unit cost of reaction p after a calc_cost step: the sum
\* over its rows of mass ratio times unit cost, the own row at the cost
\* _column_clear gave it, unknown products left out.
RawMaterialCost(p) ==
    LET cleared == _column_clear(fulldata, mod_vals)
    IN SumSkipNa(Rows([i \in DOMAIN fulldata' |->
          IF fulldata'[i].Prod # p THEN NaN
          ELSE IF fulldata'[i].Compound = p
          THEN Mul(fulldata'[i]["kg/kg rxn"], cleared[i].Cost)
          ELSE Mul(fulldata'[i]["kg/kg rxn"], fulldata'[i].Cost)]))

\* The unit cost of reaction p with its OPEX, as its consumer is charged.
ChargedCost(p) ==
    LET own == fulldata'[RowOf(fulldata', p, p)]
    IN IF isna(own.OPEX) THEN own["RM cost/kg rxn"]
       ELSE Add(own["RM cost/kg rxn"], own.OPEX)

\* C16: when calc_cost returns, for every row (q, p) the engine recursed for:
\* the row's Cost is the 'RM cost/kg rxn' of p's own row plus p's OPEX, the
\* row's 'RM cost/kg rxn' is its mass ratio times that Cost, the own rows of
\* p and of q hold the sum of mass ratio times Cost over the rows of their
\* reaction (so q's includes the ratio times p's cost with OPEX, and p's own
\* has no OPEX in it).
C16_OpexOnceAtReturn ==
    [][Returns("calc_cost") =>
         \A k \in DOMAIN Last(history').calls :
            LET q == Last(history').calls[k][1]
                p == Last(history').calls[k][2]
                row == fulldata'[RowOf(fulldata', q, p)]
            IN /\ row.Cost = ChargedCost(p)
               /\ row["RM cost/kg rxn"] = Mul(row["kg/kg rxn"], ChargedCost(p))
               /\ fulldata'[RowOf(fulldata', p, p)]["RM cost/kg rxn"] = RawMaterialCost(p)
               /\ fulldata'[RowOf(fulldata', q, q)]["RM cost/kg rxn"] = RawMaterialCost(q)]_vars

\* A calc_cost has returned on a route whose feeder carries an OPEX: the
\* consuming row's Cost is above the feeder's raw-material cost by the OPEX.
C16_Witness ==
    /\ LastReturned("calc_cost")
    /\ \E k \in DOMAIN Last(history).calls :
          LET q == Last(history).calls[k][1]
              p == Last(history).calls[k][2]
              row == fulldata[RowOf(fulldata, q, p)]
              own == fulldata[OwnRow(p)]
          IN /\ Finite(own.OPEX)
             /\ own.OPEX # Num(0)
             /\ Finite(own["RM cost/kg rxn"])
             /\ row.Cost = Add(own["RM cost/kg rxn"], own.OPEX)
             /\ row.Cost # own["RM cost/kg rxn"]

\* The step is a calc_cost that a KeyError ended.
Aborts == IsCall("calc_cost") /\ Last(history').fault = "KeyError"

\* C17 (as the specification states it): after a calc_cost that aborts for
\* want of a reaction, _column_clear gives the dataset it would have given
\* had the calculation not run, whatever the engine had written.
C17_FaultRecoverable ==
    [][Aborts =>
         _column_clear(fulldata', mod_vals') = _column_clear(fulldata, mod_vals)]_vars

\* The rows whose Cost the next _column_clear does not put back after the
\* abort.
C17_LostCosts ==
    {i \in DOMAIN fulldata :
        _column_clear(fulldata, mod_vals)[i].Cost
            # rxn_data_setup(materials, rxns).fulldata[i].Cost}

\* A calc_cost has aborted after the engine had costed a feeder reaction.
C17_Witness ==
    /\ history # <<>>
    /\ Last(history).op = "calc_cost"
    /\ Last(history).fault = "KeyError"
    /\ Last(history).calls # <<>>
    /\ \E i \in DOMAIN fulldata : ~isna(fulldata[i]["RM cost/kg rxn"])

\* The rows of dataset fd that make the engine recurse: another reaction's
\* compound, of unknown cost.
Consuming(fd) ==
    {i \in DOMAIN fd : fd[i].Compound # fd[i].Prod /\ isna(fd[i].Cost)}

\* The reaction-reference graph of fd: reaction q needs the cost of p.
Refs(fd) == {<<fd[i].Prod, fd[i].Compound>> : i \in Consuming(fd)}

RECURSIVE Closure(_, _)

\* The paths of R of at most n + 1 edges.
Closure(R, n) ==
    IF n = 0 THEN R
    ELSE LET C == Closure(R, n - 1)
         IN C \cup {<<x[1][1], x[2][2]>> : x \in {y \in C \X R : y[1][2] = y[2][1]}}

\* The graph of fd has a cycle.
HasCycle(fd) == \E p \in Prods(fd) : <<p, p>> \in Closure(Refs(fd), Cardinality(Prods(fd)))

\* A tree route: no cycle, and every compound to be costed has a reaction.
TreeRoute(fd) ==
    /\ ~HasCycle(fd)
    /\ \A e \in Refs(fd) : e[2] \in Prods(fd)

\* The number of places of sequence s that hold e.
Count(s, e) == Cardinality({k \in DOMAIN s : s[k] = e})

\* C18 (as the specification states it), second part: with two reactions
\* that name each other as cost calculated, calc_cost never comes to an end,
\* neither by a return nor by an exception.
C18_CycleNeverEnds ==
    [][IsCall("calc_cost") => ~HasCycle(_column_clear(fulldata, mod_vals))]_vars

\* C18: on a tree route calc_cost does not reach the recursion limit; the
\* engine recurses only for rows of another compound than the reaction's own
\* whose cost is unknown after _column_clear, and, when calc_cost returns,
\* exactly once for every such row of every reaction it costed.  On a route
\* with a cycle the engine recurses until the recursion limit ends calc_cost
\* with RecursionError, cost left as it was.
C18_Termination ==
    [][IsCall("calc_cost") =>
         LET cleared == _column_clear(fulldata, mod_vals)
             calls == Last(history').calls
         IN /\ TreeRoute(cleared) =>
                 /\ Last(history').fault = "none"
                 /\ \A k \in DOMAIN calls :
                        /\ calls[k][1] # calls[k][2]
                        /\ calls[k] \in Refs(cleared)
                 /\ \A i \in CostedRows(cleared, calls) \cap Consuming(cleared) :
                        Count(calls, <<cleared[i].Prod, cleared[i].Compound>>) = 1
            /\ HasCycle(cleared) =>
                 /\ Last(history').fault = "RecursionError"
                 /\ Len(calls) = MaxDepth
                 /\ \A k \in DOMAIN calls : calls[k] \in Refs(cleared)
                 /\ cost' = cost]_vars

\* A calc_cost has returned on a tree three reactions deep, the engine
\* having recursed once from the final reaction and once from its feeder.
C18_Witness ==
    /\ LastReturned("calc_cost")
    /\ TreeRoute(_column_clear(fulldata, mod_vals))
    /\ Len(Last(history).calls) = 2
    /\ Last(history).calls[1][1] = final_prod
    /\ Last(history).calls[2][1] = Last(history).calls[1][2]

\* The cost of a calc_cost with the overrides recorded and, beside them, the
\* cell (step, cpd) of column col set to val.
WithOverrides(cpd, val, col, step) ==
    calc_cost(value_mod(Self, cpd, val, col, step)).obj.cost

\* C19 (as the specification states it): the costs sensitivity returns for a
\* perturbed cell are those of a costing under the overrides recorded before
\* the call, the one cell changed by the fraction down and up.
C19_OverridesDuringSensitivity ==
    [][Returns("sensitivity") =>
         \A k \in DOMAIN Last(history').ret :
            LET line == Last(history').ret[k]
                col == Last(history').args.col
                frac == Last(history').args.frac
                was == fulldata[RowOf(fulldata, line.step, line.cpd)][col]
            IN /\ line.cost_low =
                    WithOverrides(line.cpd, Mul(was, Sub(One, frac)), col, line.step)
               /\ line.cost_high =
                    WithOverrides(line.cpd, Mul(was, Add(One, frac)), col, line.step)]_vars
==========================================================================
